---- MODULE Spec2Model ----
(***************************************************************************)
(* vsyspy contract codec: the DataEntry codec (vsyspy/contract.py and the  *)
(* older top-level contract.py), the Contract envelope, and the builders   *)
(* of the function descriptors with class ContractDefaults.                *)
(*                                                                         *)
(* Representation.  bytes are sequences of 0..255.  A Python value that a  *)
(* function receives or keeps in a field is a record with a field py.      *)
(* A Python int is kept as its big-endian base-256 digits without leading  *)
(* zeros (the empty sequence is 0), so that 64-bit values keep their       *)
(* width.  A str is the sequence of its code points.  A function that can  *)
(* raise returns [exc, val]: exc is "" on a normal return and the          *)
(* exception kind otherwise.                                               *)
(***************************************************************************)
EXTENDS Integers, Sequences, FiniteSets, TLC

VARIABLES
    module,        \* which of the two modules the program imported
    pc,            \* the caller's position: build, serialized, loop, returned, raised
    ctor,          \* the last DataEntry(...) call: its arguments and its outcome
    data_stack,    \* the caller's list of constructed entries
    wire,          \* serialize_data(data_stack), None until computed
    bytes_object,  \* data_entries_from_bytes: its argument, None until called
    length,        \* data_entries_from_bytes: the declared count
    all_data,      \* data_entries_from_bytes: the entries decoded so far
    pos_drift,     \* data_entries_from_bytes: the offset of the next entry
    pos,           \* data_entries_from_bytes: the loop counter
    exc,           \* the exception that ended the program, "" if none
    contract,      \* the Contract object that from_bytes is called on
    source,        \* the Contract object whose bytes are taken
    contract_bytes,\* source.bytes, None until taken
    call,          \* the last contract.from_bytes(...) call and its outcome
    truncated_input,\* the exception class Deser raises on a buffer cut short
    meta,          \* the values that module setting gives the constants of ContractMeta
    builder        \* the last call of a builder function and its outcome

dvars == <<module, pc, ctor, data_stack, wire, bytes_object, length, all_data,
           pos_drift, pos, exc>>

cvars == <<contract, source, contract_bytes, call, truncated_input>>

bvars == <<meta, builder>>

vars == <<dvars, cvars, bvars>>

(***************************************************************************)
(* Bounds                                                                  *)
(***************************************************************************)
MaxEntries == 2

\* the longest bytes constant of ContractMeta
MaxWidth == 2

\* the longest list of opcodes that list_opc_gen is called with
MaxOpc == 2

(***************************************************************************)
(* Python values and results                                               *)
(***************************************************************************)
PyInt(digits) == [py |-> "int", v |-> digits]
PyStr(cps) == [py |-> "str", v |-> cps]
PyBytes(b) == [py |-> "bytes", v |-> b]
PyList(l) == [py |-> "list", v |-> l]
PyNone == [py |-> "None", v |-> <<>>]

Return(x) == [exc |-> "", val |-> x]
Raise(kind) == [exc |-> kind, val |-> PyNone]

\* the rest K of a function body runs on the value of a call that returned,
\* and a call that raised ends the function with its exception
Bind(r, K(_)) == IF r.exc # "" THEN r ELSE K(r.val)

\* the sequence f[1], ..., f[n]
Tuple(n, f) == SubSeq(f, 1, n)

Rep(n, x) == Tuple(n, [i \in 1..n |-> x])

Min(a, b) == IF a < b THEN a ELSE b

\* b[lo:hi] of Python: 0-based, hi exclusive, both clamped to the length
Slice(b, lo, hi) == SubSeq(b, Min(lo, Len(b)) + 1, Min(hi, Len(b)))

RECURSIVE StripLeading(_, _)
StripLeading(s, z) ==
    IF s # <<>> /\ Head(s) = z THEN StripLeading(Tail(s), z) ELSE s

RECURSIVE list2bytes(_)
list2bytes(s) == IF s = <<>> THEN <<>> ELSE Head(s) \o list2bytes(Tail(s))

bytes2str(b) == PyStr(b)

\* s.encode('latin-1'): only code points up to 255 have an encoding
str2bytes(s) ==
    IF s.py # "str" THEN Raise("AttributeError")
    ELSE IF \E i \in 1..Len(s.v) : s.v[i] > 255 THEN Raise("UnicodeEncodeError")
    ELSE Return(s.v)

(***************************************************************************)
(* struct: big-endian unsigned fields                                      *)
(***************************************************************************)
U16Max == 65535

\* struct.pack(">H", n) of a length or count n
struct_pack_H(n) ==
    IF n <= U16Max THEN Return(<<n \div 256, n % 256>>) ELSE Raise("struct.error")

\* struct.unpack(">H", b)[0]
struct_unpack_H(b) ==
    IF Len(b) = 2 THEN Return(b[1] * 256 + b[2]) ELSE Raise("struct.error")

\* struct.pack(">q", x) and struct.pack(">i", x): the signed formats, which
\* the code does not use
struct_pack_signed(width, x) ==
    IF x.py # "int" \/ Len(x.v) > width \/ (Len(x.v) = width /\ x.v[1] >= 128)
    THEN Raise("struct.error")
    ELSE Return(Rep(width - Len(x.v), 0) \o x.v)

\* struct.pack(">Q", x) (width 8) and struct.pack(">I", x) (width 4)
struct_pack(width, x) ==
    IF x.py # "int" \/ Len(x.v) > width THEN Raise("struct.error")
    ELSE Return(Rep(width - Len(x.v), 0) \o x.v)

\* struct.unpack(">Q", b)[0] (width 8) and struct.unpack(">I", b)[0] (width 4)
struct_unpack(width, b) ==
    IF Len(b) = width THEN Return(PyInt(StripLeading(b, 0))) ELSE Raise("struct.error")

(***************************************************************************)
(* base58                                                                  *)
(***************************************************************************)
\* "123456789ABCDEFGHJKLMNPQRSTUVWXYZabcdefghijkmnopqrstuvwxyz"
Alphabet ==
    <<49, 50, 51, 52, 53, 54, 55, 56, 57,
      65, 66, 67, 68, 69, 70, 71, 72, 74, 75, 76, 77, 78, 80, 81, 82, 83, 84, 85,
      86, 87, 88, 89, 90,
      97, 98, 99, 100, 101, 102, 103, 104, 105, 106, 107, 109, 110, 111, 112, 113,
      114, 115, 116, 117, 118, 119, 120, 121, 122>>

RECURSIVE DivDigits(_, _, _, _, _)
\* long division of the number with digits s in base `from` by `by`
DivDigits(s, from, by, rem, acc) ==
    IF s = <<>> THEN [q |-> acc, r |-> rem]
    ELSE LET cur == rem * from + Head(s)
         IN DivDigits(Tail(s), from, by, cur % by, Append(acc, cur \div by))

RECURSIVE Rebase(_, _, _, _)
\* the digits in base `to` of the number with digits s in base `from`
Rebase(s, from, to, acc) ==
    LET t == StripLeading(s, 0)
    IN IF t = <<>> THEN acc
       ELSE LET d == DivDigits(t, from, to, 0, <<>>)
            IN Rebase(d.q, from, to, <<d.r>> \o acc)

b58encode(b) ==
    LET d == Rebase(b, 256, Len(Alphabet), <<>>)
    IN Rep(Len(b) - Len(StripLeading(b, 0)), Alphabet[1])
         \o Tuple(Len(d), [i \in 1..Len(d) |-> Alphabet[d[i] + 1]])

b58decode(s) ==
    IF s.py # "str" THEN Raise("TypeError")
    ELSE IF \E i \in 1..Len(s.v) : \A k \in 1..Len(Alphabet) : Alphabet[k] # s.v[i]
    THEN Raise("ValueError")
    ELSE LET idx == Tuple(Len(s.v), [i \in 1..Len(s.v) |->
                        (CHOOSE k \in 1..Len(Alphabet) : Alphabet[k] = s.v[i]) - 1])
         IN Return(Rep(Len(s.v) - Len(StripLeading(s.v, Alphabet[1])), 0)
                     \o Rebase(idx, Len(Alphabet), 256, <<>>))

(***************************************************************************)
(* Deser.serialize_array                                                   *)
(***************************************************************************)
\* a framing that prefixes a list with the number of its bytes, which the
\* code does not do
serialize_array_counting_bytes(b) ==
    IF b.py = "list"
    THEN Bind(struct_pack_H(Len(list2bytes(b.v))), LAMBDA n : Return(n \o list2bytes(b.v)))
    ELSE Bind(struct_pack_H(Len(b.v)), LAMBDA n : Return(n \o b.v))

\* a list is joined and prefixed with its element count, bytes are prefixed
\* with their length
serialize_array(b) ==
    Bind(struct_pack_H(Len(b.v)), LAMBDA n :
        IF b.py = "list" THEN Return(n \o list2bytes(b.v)) ELSE Return(n \o b.v))

(***************************************************************************)
(* class Type                                                              *)
(***************************************************************************)
Type_public_key == <<1>>
Type_key_length == 32
Type_address == <<2>>
Type_address_length == 26
Type_amount == <<3>>
Type_amount_length == 8
Type_int32 == <<4>>
Type_int32_length == 4
Type_short_text == <<5>>
Type_max_short_text_size == 140
Type_contract_account == <<6>>
Type_contract_account_length == 26
Type_account == <<7>>
Type_token_id == <<8>>
Type_token_address_length == 30
Type_timestamp == <<9>>
Type_boolean == <<10>>
Type_balance == <<11>>

(***************************************************************************)
(* vsyspy/contract.py: DataEntry                                           *)
(***************************************************************************)
\* a DataEntry object
Entry(data, name, data_type, data_bytes) ==
    [py |-> "DataEntry", data |-> data, data_type |-> name,
     data_bytes |-> data_bytes, bytes |-> data_type \o data_bytes]

check_data_type(data, data_type) ==
    IF data_type = Type_public_key THEN
        Bind(b58decode(data), LAMBDA data_bytes :
            Return(Len(data_bytes) = Type_key_length))
    ELSE IF data_type = Type_address THEN
        Bind(b58decode(data), LAMBDA data_bytes :
            Return(Len(data_bytes) = Type_address_length))
    ELSE IF data_type = Type_amount THEN
        Bind(struct_pack(8, data), LAMBDA data_bytes :
            Return(Len(data_bytes) = Type_amount_length
                     /\ struct_unpack(8, data_bytes).val.v # <<>>))
    ELSE IF data_type = Type_int32 THEN
        Bind(struct_pack(4, data), LAMBDA data_bytes :
            Return(Len(data_bytes) = Type_int32_length
                     /\ struct_unpack(4, data_bytes).val.v # <<>>))
    ELSE IF data_type = Type_short_text THEN
        Bind(str2bytes(data), LAMBDA s :
        Bind(serialize_array(PyBytes(s)), LAMBDA data_bytes :
            Return(struct_unpack_H(Slice(data_bytes, 0, 2)).val + 2 = Len(data_bytes)
                     /\ Len(data_bytes) <= Type_max_short_text_size + 2)))
    ELSE Return(TRUE)

\* DataEntry.__init__
DataEntry(data, data_type) ==
    Bind(check_data_type(data, data_type), LAMBDA ok :
       IF ~ok THEN Raise("ValueError")
       ELSE IF data_type = Type_public_key THEN
           Bind(b58decode(data), LAMBDA d :
               Return(Entry(data, "public_key", data_type, d)))
       ELSE IF data_type = Type_address THEN
           Bind(b58decode(data), LAMBDA d :
               Return(Entry(data, "address", data_type, d)))
       ELSE IF data_type = Type_amount THEN
           Bind(struct_pack(8, data), LAMBDA d :
               Return(Entry(data, "amount", data_type, d)))
       ELSE IF data_type = Type_int32 THEN
           Bind(struct_pack(4, data), LAMBDA d :
               Return(Entry(data, "int32", data_type, d)))
       ELSE IF data_type = Type_short_text THEN
           Bind(str2bytes(data), LAMBDA s :
           Bind(serialize_array(PyBytes(s)), LAMBDA d :
               Return(Entry(data, "short_text", data_type, d))))
       ELSE IF data_type = Type_contract_account THEN
           Bind(b58decode(data), LAMBDA d :
               Return(Entry(data, "contract_account", data_type, d)))
       ELSE IF data_type = Type_token_id THEN
           Bind(b58decode(data), LAMBDA d :
               Return(Entry(data, "token_id", data_type, d)))
       ELSE IF data_type = Type_timestamp THEN
           Bind(struct_pack(8, data), LAMBDA d :
               Return(Entry(data, "timestamp", data_type, d)))
       \* no branch sets data_bytes: self.data_bytes is read unset
       ELSE Raise("AttributeError"))

\* serialize_data: a value that is no list is wrapped in a list of one
serialize_data(data_entry_list) ==
    serialize_array(PyList(
        IF data_entry_list.py # "list" THEN <<data_entry_list.bytes>>
        ELSE Tuple(Len(data_entry_list.v),
                   [i \in 1..Len(data_entry_list.v) |-> data_entry_list.v[i].bytes])))

data_entry_from_bytes(b) ==
    IF Len(b) = 0 THEN Raise("ValueError")
    ELSE IF Slice(b, 0, 1) = Type_public_key THEN
        DataEntry(bytes2str(b58encode(Slice(b, 1, Len(b)))), Slice(b, 0, 1))
    ELSE IF Slice(b, 0, 1) = Type_address THEN
        DataEntry(bytes2str(b58encode(Slice(b, 1, Len(b)))), Slice(b, 0, 1))
    ELSE IF Slice(b, 0, 1) = Type_amount THEN
        Bind(struct_unpack(8, Slice(b, 1, Len(b))), LAMBDA u :
            DataEntry(u, Slice(b, 0, 1)))
    ELSE IF Slice(b, 0, 1) = Type_int32 THEN
        Bind(struct_unpack(4, Slice(b, 1, Len(b))), LAMBDA u :
            DataEntry(u, Slice(b, 0, 1)))
    ELSE IF Slice(b, 0, 1) = Type_short_text THEN
        DataEntry(bytes2str(Slice(b, 3, Len(b))), Slice(b, 0, 1))
    ELSE IF Slice(b, 0, 1) = Type_contract_account THEN
        DataEntry(bytes2str(b58encode(Slice(b, 1, Len(b)))), Slice(b, 0, 1))
    ELSE IF Slice(b, 0, 1) = Type_token_id THEN
        DataEntry(bytes2str(b58encode(Slice(b, 1, Len(b)))), Slice(b, 0, 1))
    ELSE IF Slice(b, 0, 1) = Type_timestamp THEN
        Bind(struct_unpack(8, Slice(b, 1, Len(b))), LAMBDA u :
            DataEntry(u, Slice(b, 0, 1)))
    ELSE Return(PyNone)

\* a pair whose offset lies one byte past the entry, which the code does not
\* return
ParsedOneFurther(e, next) ==
    Bind(e, LAMBDA entry : Return([py |-> "tuple", entry |-> entry, next |-> next + 1]))

\* the pair (entry, next offset) that parse_data_entry_array_size returns
Parsed(e, next) ==
    Bind(e, LAMBDA entry : Return([py |-> "tuple", entry |-> entry, next |-> next]))

\* a parser that steps over a tag byte it has no branch for, which the code
\* does not do
SkipUnknownTag(b, start_position) ==
    Return([py |-> "tuple", entry |-> PyNone, next |-> start_position + 1])

\* parse_data_entry_array_size past its last elif: there is no else, the
\* function ends and returns None
NoBranchTaken(b, start_position) == Return(PyNone)

parse_data_entry_array_size(b, start_position) ==
    IF Slice(b, start_position, start_position + 1) = Type_public_key THEN
           Parsed(data_entry_from_bytes(
                      Slice(b, start_position, start_position + Type_key_length + 1)),
                  start_position + Type_key_length + 1)
    ELSE IF Slice(b, start_position, start_position + 1) = Type_address THEN
           Parsed(data_entry_from_bytes(
                      Slice(b, start_position, start_position + Type_address_length + 1)),
                  start_position + Type_address_length + 1)
    ELSE IF Slice(b, start_position, start_position + 1) = Type_amount THEN
           Parsed(data_entry_from_bytes(
                      Slice(b, start_position, start_position + Type_amount_length + 1)),
                  start_position + Type_amount_length + 1)
    ELSE IF Slice(b, start_position, start_position + 1) = Type_int32 THEN
           Parsed(data_entry_from_bytes(
                      Slice(b, start_position, start_position + Type_int32_length + 1)),
                  start_position + Type_int32_length + 1)
    ELSE IF Slice(b, start_position, start_position + 1) = Type_short_text THEN
        Bind(struct_unpack_H(Slice(b, start_position + 1, start_position + 3)), LAMBDA n :
           Parsed(data_entry_from_bytes(
                      Slice(b, start_position, start_position + n + 3)),
                  start_position + n + 3))
    ELSE IF Slice(b, start_position, start_position + 1) = Type_contract_account THEN
           Parsed(data_entry_from_bytes(
                      Slice(b, start_position, start_position + Type_address_length + 1)),
                  start_position + Type_address_length + 1)
    ELSE IF Slice(b, start_position, start_position + 1) = Type_token_id THEN
           Parsed(data_entry_from_bytes(
                      Slice(b, start_position, start_position + Type_token_address_length + 1)),
                  start_position + Type_token_address_length + 1)
    ELSE IF Slice(b, start_position, start_position + 1) = Type_timestamp THEN
           Parsed(data_entry_from_bytes(
                      Slice(b, start_position, start_position + Type_amount_length + 1)),
                  start_position + Type_amount_length + 1)
    ELSE NoBranchTaken(b, start_position)

(***************************************************************************)
(* contract.py (the older module): DataEntry                               *)
(***************************************************************************)
legacy_check_data_type(data, data_type) ==
    IF data_type = Type_public_key THEN
        Bind(b58decode(data), LAMBDA data_bytes :
            Return(Len(data_bytes) = Type_key_length))
    ELSE IF data_type = Type_address THEN
        Bind(b58decode(data), LAMBDA data_bytes :
            Return(Len(data_bytes) = Type_address_length))
    ELSE IF data_type = Type_amount THEN
        Bind(struct_pack(8, data), LAMBDA data_bytes :
            Return(Len(data_bytes) = Type_amount_length
                     /\ struct_unpack(8, data_bytes).val.v # <<>>))
    ELSE IF data_type = Type_int32 THEN
        Bind(struct_pack(4, data), LAMBDA data_bytes :
            Return(Len(data_bytes) = Type_amount_length
                     /\ struct_unpack(4, data_bytes).val.v # <<>>))
    ELSE IF data_type = Type_short_text THEN
        Bind(str2bytes(data), LAMBDA s :
        Bind(serialize_array(PyBytes(s)), LAMBDA data_bytes :
            Return(struct_unpack_H(Slice(data_bytes, 0, 2)).val + 2 = Len(data_bytes)
                     /\ Len(data_bytes) <= Type_max_short_text_size + 2)))
    ELSE Return(TRUE)

\* DataEntry.__init__ of contract.py
legacy_DataEntry(data, data_type) ==
    Bind(legacy_check_data_type(data, data_type), LAMBDA ok :
       IF ~ok THEN Raise("ValueError")
       ELSE IF data_type = Type_public_key THEN
           Bind(b58decode(data), LAMBDA d :
               Return(Entry(data, "public_key", data_type, d)))
       ELSE IF data_type = Type_address THEN
           Bind(b58decode(data), LAMBDA d :
               Return(Entry(data, "address", data_type, d)))
       ELSE IF data_type = Type_amount THEN
           Bind(struct_pack(8, data), LAMBDA d :
               Return(Entry(data, "amount", data_type, d)))
       ELSE IF data_type = Type_int32 THEN
           Bind(struct_pack(4, data), LAMBDA d :
               Return(Entry(data, "int32", data_type, d)))
       ELSE IF data_type = Type_short_text THEN
           Bind(str2bytes(data), LAMBDA s :
           Bind(serialize_array(PyBytes(s)), LAMBDA d :
               Return(Entry(data, "short_text", data_type, d))))
       ELSE IF data_type = Type_contract_account THEN
           Bind(b58decode(data), LAMBDA d :
               Return(Entry(data, "contract_account", data_type, d)))
       \* no branch sets data_bytes: self.data_bytes is read unset
       ELSE Raise("AttributeError"))

legacy_serialize_data(data_entry_list) ==
    serialize_array(PyList(
        IF data_entry_list.py # "list" THEN <<data_entry_list.bytes>>
        ELSE Tuple(Len(data_entry_list.v),
                   [i \in 1..Len(data_entry_list.v) |-> data_entry_list.v[i].bytes])))

legacy_data_entry_from_bytes(b) ==
    IF Len(b) = 0 THEN Raise("ValueError")
    ELSE IF Slice(b, 0, 1) = Type_public_key THEN
        legacy_DataEntry(bytes2str(b58encode(Slice(b, 1, Len(b)))), Slice(b, 0, 1))
    ELSE IF Slice(b, 0, 1) = Type_address THEN
        legacy_DataEntry(bytes2str(b58encode(Slice(b, 1, Len(b)))), Slice(b, 0, 1))
    ELSE IF Slice(b, 0, 1) = Type_amount THEN
        Bind(struct_unpack(8, Slice(b, 1, Len(b))), LAMBDA u :
            legacy_DataEntry(u, Slice(b, 0, 1)))
    ELSE IF Slice(b, 0, 1) = Type_int32 THEN
        Bind(struct_unpack(4, Slice(b, 1, Len(b))), LAMBDA u :
            legacy_DataEntry(u, Slice(b, 0, 1)))
    ELSE IF Slice(b, 0, 1) = Type_short_text THEN
        legacy_DataEntry(bytes2str(Slice(b, 3, Len(b))), Slice(b, 0, 1))
    ELSE IF Slice(b, 0, 1) = Type_contract_account THEN
        legacy_DataEntry(bytes2str(b58encode(Slice(b, 1, Len(b)))), Slice(b, 0, 1))
    ELSE Return(PyNone)

legacy_parse_data_entry_array_size(b, start_position) ==
    IF Slice(b, start_position, start_position + 1) = Type_public_key THEN
           Parsed(legacy_data_entry_from_bytes(
                      Slice(b, start_position, start_position + Type_key_length + 1)),
                  start_position + Type_key_length + 1)
    ELSE IF Slice(b, start_position, start_position + 1) = Type_address THEN
           Parsed(legacy_data_entry_from_bytes(
                      Slice(b, start_position, start_position + Type_address_length + 1)),
                  start_position + Type_address_length + 1)
    ELSE IF Slice(b, start_position, start_position + 1) = Type_amount THEN
           Parsed(legacy_data_entry_from_bytes(
                      Slice(b, start_position, start_position + Type_amount_length + 1)),
                  start_position + Type_amount_length + 1)
    ELSE IF Slice(b, start_position, start_position + 1) = Type_int32 THEN
           Parsed(legacy_data_entry_from_bytes(
                      Slice(b, start_position, start_position + Type_int32_length + 1)),
                  start_position + Type_int32_length + 1)
    ELSE IF Slice(b, start_position, start_position + 1) = Type_short_text THEN
        Bind(struct_unpack_H(Slice(b, start_position + 1, start_position + 3)), LAMBDA n :
           Parsed(legacy_data_entry_from_bytes(
                      Slice(b, start_position, start_position + n + 3)),
                  start_position + n + 3))
    ELSE IF Slice(b, start_position, start_position + 1) = Type_contract_account THEN
           Parsed(legacy_data_entry_from_bytes(
                      Slice(b, start_position, start_position + Type_address_length + 1)),
                  start_position + Type_address_length + 1)
    ELSE NoBranchTaken(b, start_position)

(***************************************************************************)
(* Deser and ContractMeta: the framing helpers and the header lengths      *)
(***************************************************************************)
language_code_byte_length == 4
language_version_byte_length == 4

\* Deser.serialize_arrays: the element count, then every element behind its
\* own length
RECURSIVE FramedElements(_)
FramedElements(bs) ==
    IF bs = <<>> THEN Return(<<>>)
    ELSE Bind(struct_pack_H(Len(Head(bs))), LAMBDA n :
         Bind(FramedElements(Tail(bs)), LAMBDA rest :
             Return(n \o Head(bs) \o rest)))

serialize_arrays(bs) ==
    Bind(struct_pack_H(Len(bs)), LAMBDA n :
    Bind(FramedElements(bs), LAMBDA body :
        Return(n \o body)))

\* Deser.parse_array_size: the blob behind the 2-byte length at
\* start_position and the offset past it; a length that is cut short or
\* reaches past the end of the buffer is an error
parse_array_size(b, start_position) ==
    IF start_position + 2 > Len(b) THEN Raise(truncated_input)
    ELSE Bind(struct_unpack_H(Slice(b, start_position, start_position + 2)), LAMBDA n :
        IF start_position + 2 + n > Len(b) THEN Raise(truncated_input)
        ELSE Return([bytes |-> Slice(b, start_position + 2, start_position + 2 + n),
                     end |-> start_position + 2 + n]))

RECURSIVE ParseElements(_, _, _)
ParseElements(b, count, at) ==
    IF count = 0 THEN Return(<<>>)
    ELSE Bind(parse_array_size(b, at), LAMBDA e :
         Bind(ParseElements(b, count - 1, e.end), LAMBDA rest :
             Return(<<e.bytes>> \o rest)))

\* Deser.parse_arrays: the 2-byte count, then that many framed blobs
parse_arrays(b) ==
    IF Len(b) < 2 THEN Raise(truncated_input)
    ELSE Bind(struct_unpack_H(Slice(b, 0, 2)), LAMBDA count : ParseElements(b, count, 2))

(***************************************************************************)
(* vsyspy/contract.py: class Contract                                      *)
(***************************************************************************)
\* Contract.__init__ without a string
NewContract ==
    [language_code |-> PyNone, language_version |-> PyNone, trigger |-> PyNone,
     descriptor |-> PyNone, state_variable |-> PyNone, state_map |-> PyNone,
     textual |-> PyNone]

\* struct.pack("<I", 1): the little-endian format, which the code does not use
VersionOneLittleEndian == PyBytes(<<1, 0, 0, 0>>)

\* struct.pack(">I", 1)
VersionOne == PyBytes(<<0, 0, 0, 1>>)

\* a comparison that takes version 0 for version 1 as well, which the code
\* does not do
IsBelowVersionTwo(language_version) ==
    language_version \in {PyBytes(<<0, 0, 0, 0>>), PyBytes(<<0, 0, 0, 1>>)}

\* self.language_version == struct.pack(">I", 1)
IsVersionOne(language_version) == language_version = VersionOne

\* Deser.serialize_arrays(field) alone, without the length serialize_array
\* puts in front, which is not what the code emits for a section
SectionWithoutLength(field) ==
    IF field.py # "list" THEN Raise("TypeError") ELSE serialize_arrays(field.v)

\* Deser.serialize_array(Deser.serialize_arrays(field)) of a list field
Section(field) ==
    IF field.py # "list" THEN Raise("TypeError")
    ELSE Bind(serialize_arrays(field.v), LAMBDA a : serialize_array(PyBytes(a)))

\* Contract.bytes
Contract_bytes(self) ==
    IF self.language_code.py # "bytes" \/ self.language_version.py # "bytes"
       \/ self.textual.py # "list"
    THEN Raise("TypeError")
    ELSE IF IsVersionOne(self.language_version) THEN
        Bind(Section(self.trigger), LAMBDA t :
        Bind(Section(self.descriptor), LAMBDA d :
        Bind(Section(self.state_variable), LAMBDA v :
        Bind(serialize_arrays(self.textual.v), LAMBDA x :
            Return(self.language_code.v \o self.language_version.v \o t \o d \o v \o x)))))
    ELSE
        Bind(Section(self.trigger), LAMBDA t :
        Bind(Section(self.descriptor), LAMBDA d :
        Bind(Section(self.state_variable), LAMBDA v :
        Bind(Section(self.state_map), LAMBDA m :
        Bind(serialize_arrays(self.textual.v), LAMBDA x :
            Return(self.language_code.v \o self.language_version.v
                     \o t \o d \o v \o m \o x))))))

\* what from_bytes leaves: the object, the exception it raised and the
\* offsets it computed
Left(self, e, state_variable_end, state_map_end) ==
    [self |-> self, exc |-> e, state_variable_end |-> state_variable_end,
     state_map_end |-> state_map_end]

\* the exception that leaves the try of from_bytes: "except ValueError or
\* TypeError" names ValueError alone
Handled(e) ==
    IF e \in {"ValueError", "UnicodeEncodeError"} THEN "InvalidContractException" ELSE e

\* a statement of from_bytes: r is the call it makes, self the object as the
\* statements before left it, K the rest of the body
Try(r, self, K(_)) == IF r.exc # "" THEN Left(self, Handled(r.exc), 0, 0) ELSE K(r.val)

With(self, field, value) == [self EXCEPT ![field] = value]

\* Contract.from_bytes
Contract_from_bytes(self0, contract_bytes_arg) ==
    LET b == contract_bytes_arg
        self1 == With(With(self0, "language_code",
                           PyBytes(Slice(b, 0, language_code_byte_length))),
                      "language_version",
                      PyBytes(Slice(b, language_code_byte_length,
                                    language_code_byte_length + language_version_byte_length)))
    IN
    Try(parse_array_size(b, language_code_byte_length + language_version_byte_length),
        self1, LAMBDA trigger :
    Try(parse_arrays(trigger.bytes), self1, LAMBDA trigger_list :
    Try(parse_array_size(b, trigger.end),
        With(self1, "trigger", PyList(trigger_list)), LAMBDA descriptor :
    Try(parse_arrays(descriptor.bytes),
        With(self1, "trigger", PyList(trigger_list)), LAMBDA descriptor_list :
    Try(parse_array_size(b, descriptor.end),
        With(With(self1, "trigger", PyList(trigger_list)),
             "descriptor", PyList(descriptor_list)), LAMBDA state_variable :
    Try(parse_arrays(state_variable.bytes),
        With(With(self1, "trigger", PyList(trigger_list)),
             "descriptor", PyList(descriptor_list)), LAMBDA state_variable_list :
    Try(IF IsVersionOne(self1.language_version) THEN Return(state_variable)
        ELSE parse_array_size(b, state_variable.end),
        With(With(With(self1, "trigger", PyList(trigger_list)),
                  "descriptor", PyList(descriptor_list)),
             "state_variable", PyList(state_variable_list)), LAMBDA state_map :
    Try(IF IsVersionOne(self1.language_version) THEN parse_arrays(struct_pack_H(0).val)
        ELSE parse_arrays(state_map.bytes),
        With(With(With(self1, "trigger", PyList(trigger_list)),
                  "descriptor", PyList(descriptor_list)),
             "state_variable", PyList(state_variable_list)), LAMBDA state_map_list :
    Try(parse_arrays(Slice(b, state_map.end, Len(b))),
        With(With(With(With(self1, "trigger", PyList(trigger_list)),
                       "descriptor", PyList(descriptor_list)),
                  "state_variable", PyList(state_variable_list)),
             "state_map", PyList(state_map_list)), LAMBDA textual_list :
        Left(With(With(With(With(With(self1, "trigger", PyList(trigger_list)),
                                 "descriptor", PyList(descriptor_list)),
                            "state_variable", PyList(state_variable_list)),
                       "state_map", PyList(state_map_list)),
                  "textual", PyList(textual_list)),
             "", state_variable.end, state_map.end))))))))))

(***************************************************************************)
(* ContractMeta: the constants that the builders read                      *)
(***************************************************************************)
\* the bytes constants of ContractMeta
MetaNames ==
    <<"assert_opc", "load_opc", "cdbv_opc", "cdbvr_opc", "tdb_opc", "tdbr_opc",
      "tdba_opc", "tdbar_opc", "return_opc",
      "is_caller_origin_assert", "is_signer_origin_assert", "signer_load",
      "caller_load", "set_cdbv", "get_cdbvr", "new_token_tdb", "split_tdb",
      "get_tdbr", "total_tdbr", "deposit_tdba", "withdraw_tdba", "transfer_tdba",
      "balance_tdbar",
      "state_var_issuer", "state_var_maker",
      "init_input_issuer_load_index", "init_input_max_index",
      "init_input_unity_index", "init_input_short_text_index",
      "supersede_input_maker", "supersede_input_new_issuer_index",
      "issue_input_issuer_get_index", "issue_input_amount_index",
      "destroy_input_issuer_get_index", "destroy_input_destroy_amount_index",
      "split_input_issuer_get_index", "split_input_new_unity_index",
      "send_input_sender_index", "send_input_recipient_index",
      "send_input_amount_index",
      "transfer_input_sender_index", "transfer_input_recipient_index",
      "transfer_input_amount_index",
      "deposit_input_sender_index", "deposit_input_smart_contract_index",
      "deposit_input_amount_index",
      "withdraw_input_smart_contract_index", "withdraw_input_recipient_index",
      "withdraw_input_amount_index",
      "balance_of_input_account_index">>

\* ContractMeta.<name> of a bytes constant: module setting is not among the
\* source files, so a constant is meta.width bytes that hold its place in
\* MetaNames, and no two constants are equal
ContractMeta(name) ==
    Rep(meta.width, CHOOSE i \in 1..Len(MetaNames) : MetaNames[i] = name)

\* the operations of the token contract in the order of their descriptors
Operations ==
    <<"supersede", "issue", "destroy", "split", "send", "transfer", "deposit",
      "withdraw", "total_supply", "max_supply", "balance_of", "get_issuer">>

\* s without its element x
RECURSIVE Without(_, _)
Without(s, x) ==
    IF s = <<>> THEN <<>>
    ELSE IF Head(s) = x THEN Without(Tail(s), x)
    ELSE <<Head(s)>> \o Without(Tail(s), x)

\* ContractMeta.init, ContractMeta.<op> and ContractMeta.<op>_without_split,
\* the ids of the functions: an int kept as a number, counted from meta.first
\* in the order of the descriptors
ContractMeta_id(op, with_split) ==
    IF op = "init" THEN meta.first
    ELSE meta.first - 1
           + (CHOOSE i \in 1..Len(Operations) :
                (IF with_split THEN Operations ELSE Without(Operations, "split"))[i] = op)

\* ContractMeta.non_return_type and the name no_return_bytes that the star
\* imports bring: no types
non_return_type == PyBytes(<<>>)
no_return_bytes == PyBytes(<<>>)

\* data_type_list.get(name): the tag byte of a type name, None for a name
\* that is not a key
data_type_list(name) ==
    IF name = "PublicKey" THEN Type_public_key
    ELSE IF name = "Address" THEN Type_address
    ELSE IF name = "Amount" THEN Type_amount
    ELSE IF name = "Int32" THEN Type_int32
    ELSE IF name = "ShortText" THEN Type_short_text
    ELSE IF name = "ContractAccount" THEN Type_contract_account
    ELSE IF name = "Account" THEN Type_account
    ELSE PyNone

\* function_type_map.get(name): one byte made of the key of the name
function_type_map(name) == IF name = "onInit" THEN <<0>> ELSE <<1>>

(***************************************************************************)
(* vsyspy/contract.py: the opcodes                                         *)
(***************************************************************************)
opc_assert_is_caller_origin ==
    ContractMeta("assert_opc") \o ContractMeta("is_caller_origin_assert")
opc_assert_is_signer_origin ==
    ContractMeta("assert_opc") \o ContractMeta("is_signer_origin_assert")
opc_load_signer == ContractMeta("load_opc") \o ContractMeta("signer_load")
opc_load_caller == ContractMeta("load_opc") \o ContractMeta("caller_load")
opc_cdbv_set == ContractMeta("cdbv_opc") \o ContractMeta("set_cdbv")
opc_cdbvr_get == ContractMeta("cdbvr_opc") \o ContractMeta("get_cdbvr")
opc_tdb_new_token == ContractMeta("tdb_opc") \o ContractMeta("new_token_tdb")
opc_tdb_split == ContractMeta("tdb_opc") \o ContractMeta("split_tdb")
opc_tdbr_opc_max == ContractMeta("tdbr_opc") \o ContractMeta("get_tdbr")
opc_tdbr_opc_total == ContractMeta("tdbr_opc") \o ContractMeta("total_tdbr")
opc_tdba_deposit == ContractMeta("tdba_opc") \o ContractMeta("deposit_tdba")
opc_tdba_withdraw == ContractMeta("tdba_opc") \o ContractMeta("withdraw_tdba")
opc_tdba_transfer == ContractMeta("tdba_opc") \o ContractMeta("transfer_tdba")
opc_tdbar_balance == ContractMeta("tdbar_opc") \o ContractMeta("balance_tdbar")
opc_return_value == ContractMeta("return_opc") \o <<1>>

(***************************************************************************)
(* vsyspy/contract.py: list_opc_gen                                        *)
(***************************************************************************)
\* list(zip(ids, index_input)): the pairs, as many as the shorter list has
zip(ids, index_input) ==
    Tuple(Min(Len(ids), Len(index_input)),
          [i \in 1..Min(Len(ids), Len(index_input)) |-> <<ids[i], index_input[i]>>])

\* sum(map(lambda x: len(x[0] + x[1]) + 2, pairs))
RECURSIVE SumOfLengths(_)
SumOfLengths(pairs) ==
    IF pairs = <<>> THEN 0
    ELSE Len(Head(pairs)[1] \o Head(pairs)[2]) + 2 + SumOfLengths(Tail(pairs))

\* the instructions joined: struct.pack(">H", len(x[0] + x[1])) + x[0] + x[1]
RECURSIVE Instructions(_)
Instructions(pairs) ==
    IF pairs = <<>> THEN Return(<<>>)
    ELSE Bind(struct_pack_H(Len(Head(pairs)[1] \o Head(pairs)[2])), LAMBDA n :
         Bind(Instructions(Tail(pairs)), LAMBDA rest :
             Return(n \o Head(pairs)[1] \o Head(pairs)[2] \o rest)))

\* a length field that leaves out the 2 bytes of the instruction count,
\* which the code adds
list_opc_gen_without_count(ids, index_input) ==
    Bind(struct_pack_H(SumOfLengths(zip(ids, index_input))), LAMBDA total :
    Bind(struct_pack_H(Len(ids)), LAMBDA num_opc :
    Bind(Instructions(zip(ids, index_input)), LAMBDA list_opc :
        Return(total \o num_opc \o list_opc))))

list_opc_gen(ids, index_input) ==
    Bind(struct_pack_H(SumOfLengths(zip(ids, index_input)) + 2), LAMBDA total :
    Bind(struct_pack_H(Len(ids)), LAMBDA num_opc :
    Bind(Instructions(zip(ids, index_input)), LAMBDA list_opc :
        Return(total \o num_opc \o list_opc))))

(***************************************************************************)
(* vsyspy/contract.py: the descriptors of the functions                    *)
(***************************************************************************)
\* opc_load_signer_index() and opc_load_caller_index()
opc_load_signer_index == <<3>>
opc_load_caller_index == <<2>>

\* init_opc() and <op>_opc(): the opcodes of a function
opc_of(op) ==
    IF op = "init" THEN <<opc_load_signer, opc_cdbv_set, opc_cdbv_set, opc_tdb_new_token>>
    ELSE IF op = "supersede" THEN <<opc_cdbvr_get, opc_assert_is_signer_origin, opc_cdbv_set>>
    ELSE IF op = "issue" THEN <<opc_cdbvr_get, opc_assert_is_caller_origin, opc_tdba_deposit>>
    ELSE IF op = "destroy" THEN <<opc_cdbvr_get, opc_assert_is_caller_origin, opc_tdba_withdraw>>
    ELSE IF op = "split" THEN <<opc_cdbvr_get, opc_assert_is_caller_origin, opc_tdb_split>>
    ELSE IF op = "send" THEN <<opc_load_caller, opc_tdba_transfer>>
    ELSE IF op \in {"transfer", "deposit", "withdraw"}
    THEN <<opc_assert_is_caller_origin, opc_tdba_transfer>>
    ELSE IF op = "total_supply" THEN <<opc_tdbr_opc_total, opc_return_value>>
    ELSE IF op = "max_supply" THEN <<opc_tdbr_opc_max, opc_return_value>>
    ELSE IF op = "balance_of" THEN <<opc_tdbar_balance, opc_return_value>>
    ELSE <<opc_cdbvr_get, opc_return_value>>

\* init_opc_index() and <op>_opc_index(): the operand indexes of the opcodes
opc_index_of(op) ==
    IF op = "init" THEN
        <<opc_load_signer_index,
          ContractMeta("state_var_issuer") \o ContractMeta("init_input_issuer_load_index"),
          ContractMeta("state_var_maker") \o ContractMeta("init_input_issuer_load_index"),
          ContractMeta("init_input_max_index") \o ContractMeta("init_input_unity_index")
            \o ContractMeta("init_input_short_text_index")>>
    ELSE IF op = "supersede" THEN
        <<ContractMeta("state_var_maker") \o <<1>>,
          ContractMeta("supersede_input_maker"),
          ContractMeta("state_var_issuer") \o ContractMeta("supersede_input_new_issuer_index")>>
    ELSE IF op = "issue" THEN
        <<ContractMeta("state_var_issuer") \o <<1>>,
          ContractMeta("issue_input_issuer_get_index"),
          ContractMeta("issue_input_issuer_get_index") \o ContractMeta("issue_input_amount_index")>>
    ELSE IF op = "destroy" THEN
        <<ContractMeta("state_var_issuer") \o <<1>>,
          ContractMeta("destroy_input_issuer_get_index"),
          ContractMeta("destroy_input_issuer_get_index")
            \o ContractMeta("destroy_input_destroy_amount_index")>>
    ELSE IF op = "split" THEN
        <<ContractMeta("state_var_issuer") \o <<1>>,
          ContractMeta("split_input_issuer_get_index"),
          ContractMeta("split_input_new_unity_index")>>
    ELSE IF op = "send" THEN
        <<opc_load_caller_index,
          ContractMeta("send_input_sender_index") \o ContractMeta("send_input_recipient_index")
            \o ContractMeta("send_input_amount_index")>>
    ELSE IF op = "transfer" THEN
        <<ContractMeta("transfer_input_sender_index"),
          ContractMeta("transfer_input_sender_index")
            \o ContractMeta("transfer_input_recipient_index")
            \o ContractMeta("transfer_input_amount_index")>>
    ELSE IF op = "deposit" THEN
        <<ContractMeta("deposit_input_sender_index"),
          ContractMeta("deposit_input_sender_index")
            \o ContractMeta("deposit_input_smart_contract_index")
            \o ContractMeta("deposit_input_amount_index")>>
    ELSE IF op = "withdraw" THEN
        <<ContractMeta("withdraw_input_recipient_index"),
          ContractMeta("withdraw_input_smart_contract_index")
            \o ContractMeta("withdraw_input_recipient_index")
            \o ContractMeta("withdraw_input_amount_index")>>
    ELSE IF op \in {"total_supply", "max_supply"} THEN <<<<0>>, <<0>>>>
    ELSE IF op = "balance_of" THEN
        <<ContractMeta("balance_of_input_account_index") \o <<1>>, <<1>>>>
    ELSE <<ContractMeta("state_var_issuer") \o <<0>>, <<0>>>>

\* init_para_type() and <op>_para_type(): the types of the parameters
para_type(op) ==
    IF op = "init"
    THEN PyList(<<data_type_list("Amount"), data_type_list("Amount"),
                  data_type_list("ShortText")>>)
    ELSE IF op = "supersede" THEN PyList(<<data_type_list("Account")>>)
    ELSE IF op \in {"issue", "destroy", "split"} THEN PyList(<<data_type_list("Amount")>>)
    ELSE IF op = "send"
    THEN PyList(<<data_type_list("Account"), data_type_list("Amount")>>)
    ELSE IF op = "transfer"
    THEN PyList(<<data_type_list("Account"), data_type_list("Account"),
                  data_type_list("Amount")>>)
    ELSE IF op = "deposit"
    THEN PyList(<<data_type_list("Account"), data_type_list("ContractAccount"),
                  data_type_list("Amount")>>)
    ELSE IF op = "withdraw"
    THEN PyList(<<data_type_list("ContractAccount"), data_type_list("Account"),
                  data_type_list("Amount")>>)
    ELSE IF op = "balance_of" THEN PyList(<<data_type_list("Account")>>)
    ELSE no_return_bytes

\* the return types that <op>_fun_gen passes to proto_type_gen
return_type(op) ==
    IF op \in {"total_supply", "max_supply", "balance_of"}
    THEN PyList(<<data_type_list("Amount")>>)
    ELSE IF op = "get_issuer" THEN PyList(<<data_type_list("Account")>>)
    ELSE non_return_type

\* init_fun_id_gen(), <op>_fun_id_gen() and <op>_fun_id_without_split_gen()
fun_id_gen(op, with_split) == struct_pack_H(ContractMeta_id(op, with_split))

proto_type_gen(return_type_arg, list_para_types) ==
    Bind(serialize_array(return_type_arg), LAMBDA r :
    Bind(serialize_array(list_para_types), LAMBDA p :
        Return(r \o p)))

\* a descriptor whose calling type stands before its id, which the code
\* does not build
func_gen_type_first(fun_idx, fun_type, proto_type, list_opc) ==
    fun_type \o fun_idx \o proto_type \o list_opc

func_gen(fun_idx, fun_type, proto_type, list_opc) ==
    fun_idx \o fun_type \o proto_type \o list_opc

\* generators that give the functions without split the calling type of
\* init, which the code does not do
fun_gen_other_type_without_split(op, with_split) ==
    Bind(fun_id_gen(op, with_split), LAMBDA fun_idx :
    Bind(proto_type_gen(return_type(op), para_type(op)), LAMBDA proto_type :
    Bind(list_opc_gen(opc_of(op), opc_index_of(op)), LAMBDA list_opc :
        Return(func_gen(fun_idx,
                        function_type_map(IF op = "init" \/ ~with_split
                                          THEN "onInit" ELSE "public"),
                        proto_type, list_opc)))))

\* init_fun_gen(), <op>_fun_gen() and <op>_fun_without_split_gen()
fun_gen(op, with_split) ==
    Bind(fun_id_gen(op, with_split), LAMBDA fun_idx :
    Bind(proto_type_gen(return_type(op), para_type(op)), LAMBDA proto_type :
    Bind(list_opc_gen(opc_of(op), opc_index_of(op)), LAMBDA list_opc :
        Return(func_gen(fun_idx,
                        function_type_map(IF op = "init" THEN "onInit" ELSE "public"),
                        proto_type, list_opc)))))

(***************************************************************************)
(* vsyspy/contract.py: the textual descriptors                             *)
(***************************************************************************)
\* Deser.serialize_string: the UTF-8 bytes of a str of code points below 2048
RECURSIVE Utf8(_)
Utf8(cps) ==
    IF cps = <<>> THEN <<>>
    ELSE (IF Head(cps) < 128 THEN <<Head(cps)>>
          ELSE <<192 + (Head(cps) \div 64), 128 + (Head(cps) % 64)>>) \o Utf8(Tail(cps))

serialize_string(s) == IF s.py # "str" THEN Raise("AttributeError") ELSE Return(Utf8(s.v))

\* [Deser.serialize_string(x) for x in l]
RECURSIVE SerializeStrings(_)
SerializeStrings(l) ==
    IF l = <<>> THEN Return(<<>>)
    ELSE Bind(serialize_string(Head(l)), LAMBDA b :
         Bind(SerializeStrings(Tail(l)), LAMBDA rest :
             Return(<<b>> \o rest)))

textual_fun_gen(name, ret, para) ==
    Bind(serialize_string(name), LAMBDA n :
    Bind(serialize_array(PyBytes(n)), LAMBDA func_byte :
    Bind(SerializeStrings(ret), LAMBDA rs :
    Bind(serialize_arrays(rs), LAMBDA ra :
    Bind(serialize_array(PyBytes(ra)), LAMBDA ret_byte :
    Bind(SerializeStrings(para), LAMBDA ps :
    Bind(serialize_arrays(ps), LAMBDA para_byte :
        Return(func_byte \o ret_byte \o para_byte))))))))

\* the name that <op>_func_bytes() gives its function
FunctionName(op) ==
    IF op = "init" THEN PyStr(<<105, 110, 105, 116>>)
    ELSE IF op = "supersede" THEN PyStr(<<115, 117, 112, 101, 114, 115, 101, 100, 101>>)
    ELSE IF op = "issue" THEN PyStr(<<105, 115, 115, 117, 101>>)
    ELSE IF op = "destroy" THEN PyStr(<<100, 101, 115, 116, 114, 111, 121>>)
    ELSE IF op = "split" THEN PyStr(<<115, 112, 108, 105, 116>>)
    ELSE IF op = "send" THEN PyStr(<<115, 101, 110, 100>>)
    ELSE IF op = "transfer" THEN PyStr(<<116, 114, 97, 110, 115, 102, 101, 114>>)
    ELSE IF op = "deposit" THEN PyStr(<<100, 101, 112, 111, 115, 105, 116>>)
    ELSE IF op = "withdraw" THEN PyStr(<<119, 105, 116, 104, 100, 114, 97, 119>>)
    ELSE IF op = "total_supply"
    THEN PyStr(<<116, 111, 116, 97, 108, 83, 117, 112, 112, 108, 121>>)
    ELSE IF op = "max_supply" THEN PyStr(<<109, 97, 120, 83, 117, 112, 112, 108, 121>>)
    ELSE IF op = "balance_of" THEN PyStr(<<98, 97, 108, 97, 110, 99, 101, 79, 102>>)
    ELSE PyStr(<<103, 101, 116, 73, 115, 115, 117, 101, 114>>)

\* the names of the returned values: "total", "max", "balance", "issuer"
ReturnNames(op) ==
    IF op = "total_supply" THEN <<PyStr(<<116, 111, 116, 97, 108>>)>>
    ELSE IF op = "max_supply" THEN <<PyStr(<<109, 97, 120>>)>>
    ELSE IF op = "balance_of" THEN <<PyStr(<<98, 97, 108, 97, 110, 99, 101>>)>>
    ELSE IF op = "get_issuer" THEN <<PyStr(<<105, 115, 115, 117, 101, 114>>)>>
    ELSE <<>>

\* ContractMeta.<op>_para, the names of the parameters: one name of
\* meta.width letters for each parameter type
ContractMeta_para(op) ==
    Tuple(Len(para_type(op).v),
          [i \in 1..Len(para_type(op).v) |-> PyStr(Rep(meta.width, 96 + i))])

\* init_func_bytes() and <op>_func_bytes()
func_bytes(op) == textual_fun_gen(FunctionName(op), ReturnNames(op), ContractMeta_para(op))

(***************************************************************************)
(* vsyspy/contract.py: the builders of the header and of a section         *)
(***************************************************************************)
language_code_builder(code) ==
    IF Len(code.v) = language_code_byte_length
    THEN Bind(serialize_string(code), LAMBDA language_code : Return(PyBytes(language_code)))
    ELSE Raise("Exception")

\* try: ... except: print(...): every exception of the body is caught, the
\* function runs to its end and returns None
ExceptAll(r) == IF r.exc # "" THEN Return(PyNone) ELSE r

language_version_builder(version) ==
    ExceptAll(Bind(struct_pack(4, version), LAMBDA packed :
                  IF Len(packed) = language_version_byte_length
                  THEN Return(PyBytes(packed))
                  ELSE Raise("Exception")))

\* the else branch logs and the function runs to its end: None
bytes_builder_from_list(input_list) ==
    IF input_list.py = "list"
    THEN Bind(serialize_arrays(input_list.v), LAMBDA arrays :
         Bind(serialize_array(PyBytes(arrays)), LAMBDA framed :
             Return(PyBytes(framed))))
    ELSE Return(PyNone)

(***************************************************************************)
(* vsyspy/contract.py: class ContractDefaults                              *)
(***************************************************************************)
\* the values of a list display, or the first exception of its elements
RECURSIVE Collect(_)
Collect(rs) ==
    IF rs = <<>> THEN Return(<<>>)
    ELSE Bind(Head(rs), LAMBDA v :
         Bind(Collect(Tail(rs)), LAMBDA rest :
             Return(<<v>> \o rest)))

FunGens(ops, with_split) ==
    Collect(Tuple(Len(ops), [i \in 1..Len(ops) |-> fun_gen(ops[i], with_split)]))

FuncBytes(ops) ==
    Bind(Collect(Tuple(Len(ops), [i \in 1..Len(ops) |-> func_bytes(ops[i])])),
         LAMBDA l : serialize_arrays(l))

\* the version that the class body passes to language_version_builder
language_version_of_defaults_two == PyInt(<<2>>)
language_version_of_defaults == PyInt(<<1>>)

descriptor_without_split ==
    FunGens(<<"supersede", "issue", "destroy", "send", "transfer", "deposit",
              "withdraw", "total_supply", "max_supply", "balance_of", "get_issuer">>,
            FALSE)

descriptor_with_split ==
    FunGens(<<"supersede", "issue", "destroy", "split", "send", "transfer", "deposit",
              "withdraw", "total_supply", "max_supply", "balance_of", "get_issuer">>,
            TRUE)

\* ContractMeta.state_var_name: "issuer", "maker"
state_var_name ==
    <<PyStr(<<105, 115, 115, 117, 101, 114>>), PyStr(<<109, 97, 107, 101, 114>>)>>

descriptor_textual_without_split ==
    FuncBytes(<<"supersede", "issue", "destroy", "send", "transfer", "deposit",
                "withdraw", "total_supply", "max_supply", "balance_of", "get_issuer">>)

\* a textual list that names send before split, which the code does not
\* build
descriptor_textual_send_before_split ==
    FuncBytes(<<"supersede", "issue", "destroy", "send", "split", "transfer", "deposit",
                "withdraw", "total_supply", "max_supply", "balance_of", "get_issuer">>)

descriptor_textual_with_split ==
    FuncBytes(<<"supersede", "issue", "destroy", "split", "send", "transfer", "deposit",
                "withdraw", "total_supply", "max_supply", "balance_of", "get_issuer">>)

\* the attributes of the class, as its body computes them in order
ContractDefaults ==
    Bind(language_code_builder(PyStr(<<118, 100, 100, 115>>)), LAMBDA language_code :
    Bind(language_version_builder(language_version_of_defaults), LAMBDA language_version :
    Bind(FunGens(<<"init">>, TRUE), LAMBDA trigger :
    Bind(descriptor_without_split, LAMBDA without_split :
    Bind(descriptor_with_split, LAMBDA with_split :
    Bind(SerializeStrings(state_var_name), LAMBDA names :
    Bind(serialize_arrays(names), LAMBDA state_var_textual :
    Bind(FuncBytes(<<"init">>), LAMBDA initializer_textual :
    Bind(descriptor_textual_without_split, LAMBDA textual_without :
    Bind(descriptor_textual_with_split, LAMBDA textual_with :
        Return([py |-> "ContractDefaults",
                language_code |-> language_code,
                language_version |-> language_version,
                trigger |-> trigger,
                descriptor_without_split |-> without_split,
                descriptor_with_split |-> with_split,
                state_var |-> <<ContractMeta("state_var_issuer") \o data_type_list("Address"),
                                ContractMeta("state_var_maker") \o data_type_list("Address")>>,
                state_var_textual |-> state_var_textual,
                initializer_textual |-> initializer_textual,
                descriptor_textual_without_split |-> textual_without,
                descriptor_textual_with_split |-> textual_with,
                textual_without_split |->
                    <<initializer_textual, textual_without, state_var_textual>>,
                textual_with_split |->
                    <<initializer_textual, textual_with, state_var_textual>>])))))))))))

(***************************************************************************)
(* The calling program: its inputs                                         *)
(***************************************************************************)
Modules == {"vsyspy", "legacy"}

\* an n-byte payload with the given first byte
Payload(n, first) == Tuple(n, [i \in 1..n |-> IF i = 1 THEN first ELSE (37 * i) % 256])
B58(n, first) == PyStr(b58encode(Payload(n, first)))
Text(n) == PyStr(Tuple(n, [i \in 1..n |-> 97 + (i % 26)]))
Hi == PyStr(<<104, 105>>)

Zero == PyInt(<<>>)
One == PyInt(<<1>>)
MaxU32 == PyInt(Rep(4, 255))
MaxU64 == PyInt(Rep(8, 255))
\* 0, 1, 100, 256, 2^32 - 1, 2^32, 2^64 - 1, 2^64
IntInputs ==
    {Zero, One, PyInt(<<100>>), PyInt(<<1, 0>>), MaxU32, PyInt(<<1>> \o Rep(4, 0)),
     MaxU64, PyInt(<<1>> \o Rep(8, 0))}

Arg(data, data_type) == [data |-> data, data_type |-> data_type]

\* the entries the program collects into the list it serializes
StackInputs ==
    {Arg(B58(Type_key_length, 200), Type_public_key),
     Arg(B58(Type_address_length, 0), Type_address),
     Arg(PyInt(<<100>>), Type_amount),
     Arg(MaxU32, Type_int32),
     Arg(Hi, Type_short_text),
     Arg(B58(Type_contract_account_length, 6), Type_contract_account),
     Arg(B58(5, 6), Type_contract_account),
     Arg(B58(Type_token_address_length, 132), Type_token_id),
     Arg(Zero, Type_timestamp)}

\* every DataEntry(...) call the program may make
CtorInputs ==
    StackInputs
      \cup {Arg(B58(Type_key_length - 1, 200), Type_public_key),
            Arg(B58(Type_address_length + 1, 0), Type_address),
            Arg(B58(5, 6), Type_token_id),
            Arg(B58(Type_address_length, 5), Type_account),
            Arg(Hi, Type_amount)}
      \cup {Arg(x, t) : x \in IntInputs, t \in {Type_amount, Type_int32}}
      \cup {Arg(x, Type_timestamp) : x \in {One, MaxU64}}
      \cup {Arg(Text(n), Type_short_text) :
              n \in {0, Type_max_short_text_size, Type_max_short_text_size + 1,
                     U16Max, U16Max + 1}}
      \cup {Arg(PyStr(<<104, 256>>), Type_short_text)}

NoCall == [data |-> PyNone, data_type |-> <<>>, exc |-> "", val |-> PyNone]

\* the offset of the i-th entry of the serialized list l
RECURSIVE OffsetOf(_, _)
OffsetOf(l, i) == IF i = 1 THEN 2 ELSE OffsetOf(l, i - 1) + Len(l[i - 1].bytes)

WithByte(b, at, x) == Tuple(Len(b), [i \in 1..Len(b) |-> IF i = at + 1 THEN x ELSE b[i]])

\* the buffers the program may receive where it expects w = serialize_data(l):
\* w itself, w cut short, w with one more entry declared, w with the tag of
\* one entry replaced by a tag that is not registered (12) or registered
\* without a decoder (Type.account), w followed by one more byte, buffers
\* too short to hold a count, and w with one entry fewer declared
Received(w, l) ==
    {w, Slice(w, 0, Len(w) - 1), WithByte(w, 1, Len(l) + 1), w \o <<0>>, <<>>, <<0>>}
      \cup {WithByte(w, 1, Len(l) - 1) : i \in 1..Min(Len(l), 1)}
      \cup {WithByte(w, OffsetOf(l, i), t) : i \in 1..Len(l), t \in {12} \cup {Type_account[1]}}

(***************************************************************************)
(* The calling program: its steps                                          *)
(***************************************************************************)
DataInit ==
    /\ module \in Modules
    /\ pc = "build"
    /\ ctor = NoCall
    /\ data_stack = <<>>
    /\ wire = PyNone
    /\ bytes_object = PyNone
    /\ length = 0
    /\ all_data = <<>>
    /\ pos_drift = 0
    /\ pos = 0
    /\ exc = ""

(***************************************************************************)
(* The calling program of class Contract: its inputs and its steps         *)
(***************************************************************************)
\* the longest section of a contract the program builds
MaxSection == 2

\* a section of n blobs of lengths 0, 1, .. n-1, filled from `first`
Blobs(n, first) == Tuple(n, [i \in 1..n |-> Rep(i - 1, first + i)])

\* struct.pack(">I", v) of the language versions the program uses
Versions ==
    {<<0, 0, 0, 0>>, <<0, 0, 0, 1>>, <<0, 0, 0, 2>>, <<0, 0, 1, 1>>, <<1, 0, 0, 0>>,
     <<255, 255, 255, 255>>}

\* "vdds"
LanguageCode == <<118, 100, 100, 115>>

\* the contract objects whose bytes are taken
ContractInputs ==
    {[language_code |-> PyBytes(LanguageCode), language_version |-> PyBytes(v),
      trigger |-> PyList(Blobs(n, 10)), descriptor |-> PyList(Blobs(n + 1, 20)),
      state_variable |-> PyList(Blobs(n, 30)), state_map |-> PyList(Blobs(m, 40)),
      textual |-> PyList(Blobs(x, 50))] :
        v \in Versions, n \in 0..MaxSection, m \in 0..MaxSection, x \in {3, 4}}

NoFromBytes ==
    [arg |-> PyNone, exc |-> "", state_variable_end |-> 0, state_map_end |-> 0]

\* the buffers from_bytes is called with: the bytes taken, the bytes cut by
\* one, the header alone, nothing, and the bytes under another version
ReceivedContract(b) ==
    {b, Slice(b, 0, Len(b) - 1), Slice(b, 0, 8), <<>>,
     Slice(b, 0, 4) \o <<0, 0, 0, 1>> \o Slice(b, 8, Len(b)),
     Slice(b, 0, 4) \o <<0, 0, 0, 2>> \o Slice(b, 8, Len(b))}

ContractInit ==
    /\ contract = NewContract
    /\ source = NewContract
    /\ contract_bytes = PyNone
    /\ call = NoFromBytes

\* the exception classes Deser may raise on a buffer cut short: Deser is
\* not among the source files, and from_bytes treats the classes differently
DeserErrors == {"ValueError", "struct.error", "IndexError", "TypeError"}

\* no builder was called; the programs of DataEntry and of class Contract
\* call none, and read no constant of ContractMeta but the header lengths
NoBuilderCall == [fn |-> "", args |-> <<>>, exc |-> "", val |-> PyNone]

BuilderInit == meta = [width |-> 1, first |-> 0] /\ builder = NoBuilderCall

\* the DataEntry program never calls the parsers of Deser
Init == DataInit /\ ContractInit /\ truncated_input = "struct.error" /\ BuilderInit

\* contract_bytes = c.bytes
TakeBytes(c) ==
    /\ contract_bytes = PyNone
    /\ \E r \in {Contract_bytes(c)} :
          /\ source' = c
          /\ contract_bytes' = IF r.exc # "" THEN PyNone ELSE PyBytes(r.val)
    /\ UNCHANGED <<contract, call, truncated_input>>
    /\ UNCHANGED <<dvars, bvars>>

\* contract.from_bytes(b)
FromBytes(b) ==
    /\ contract_bytes # PyNone
    /\ \E r \in {Contract_from_bytes(contract, b)} :
          /\ contract' = r.self
          /\ call' = [arg |-> PyBytes(b), exc |-> r.exc,
                      state_variable_end |-> r.state_variable_end,
                      state_map_end |-> r.state_map_end]
    /\ UNCHANGED <<source, contract_bytes, truncated_input>>
    /\ UNCHANGED <<dvars, bvars>>

NextContract ==
    \/ \E c \in ContractInputs : TakeBytes(c)
    \/ \E b \in ReceivedContract(contract_bytes.v) : FromBytes(b)

\* class Contract is of vsyspy/contract.py alone
InitContract ==
    /\ DataInit /\ module = "vsyspy" /\ ContractInit /\ truncated_input \in DeserErrors
    /\ BuilderInit

SpecContract == InitContract /\ [][NextContract]_vars

\* e = DataEntry(data, data_type); an entry of StackInputs is appended to
\* the list, a raise ends the program
NewDataEntry(data, data_type) ==
    /\ pc = "build"
    /\ Len(data_stack) < MaxEntries
    /\ \E r \in {IF module = "legacy" THEN legacy_DataEntry(data, data_type)
                 ELSE DataEntry(data, data_type)} :
          /\ ctor' = [data |-> data, data_type |-> data_type, exc |-> r.exc, val |-> r.val]
          /\ exc' = r.exc
          /\ pc' = IF r.exc # "" THEN "raised"
                   ELSE IF Arg(data, data_type) \in StackInputs THEN "build"
                   ELSE "constructed"
          /\ data_stack' = IF r.exc = "" /\ Arg(data, data_type) \in StackInputs
                           THEN Append(data_stack, r.val) ELSE data_stack
    /\ UNCHANGED <<module, wire, bytes_object, length, all_data, pos_drift, pos>>
    /\ UNCHANGED <<cvars, bvars>>

\* wire = serialize_data(data_stack); a list of one may be passed as its entry
SerializeData ==
    /\ pc = "build"
    /\ \E arg \in {PyList(data_stack)} \cup {data_stack[i] : i \in {1} \cap {Len(data_stack)}} :
       \E r \in {IF module = "legacy" THEN legacy_serialize_data(arg)
                 ELSE serialize_data(arg)} :
            /\ exc' = r.exc
            /\ pc' = IF r.exc # "" THEN "raised" ELSE "serialized"
            /\ wire' = IF r.exc # "" THEN wire ELSE PyBytes(r.val)
    /\ UNCHANGED <<module, ctor, data_stack, bytes_object, length, all_data, pos_drift, pos>>
    /\ UNCHANGED <<cvars, bvars>>

\* data_entries_from_bytes(b), up to its loop
DataEntriesFromBytes(b) ==
    /\ pc = "serialized"
    /\ \E n \in {struct_unpack_H(Slice(b, 0, 2))} :
          /\ bytes_object' = PyBytes(b)
          /\ exc' = n.exc
          /\ pc' = IF n.exc # "" THEN "raised" ELSE "loop"
          /\ length' = IF n.exc # "" THEN 0 ELSE n.val
          /\ all_data' = <<>>
          /\ pos_drift' = 2
          /\ pos' = 0
    /\ UNCHANGED <<module, ctor, data_stack, wire>>
    /\ UNCHANGED <<cvars, bvars>>

\* what unpacking [array_info, pos_drift] = r raises: TypeError when r is None
Unpacked(r) == IF r.exc # "" THEN r.exc ELSE IF r.val.py = "None" THEN "TypeError" ELSE ""

\* one pass of the loop of data_entries_from_bytes
ParseEntry ==
    /\ pc = "loop"
    /\ pos < length
    /\ \E r \in {IF module = "legacy"
                 THEN legacy_parse_data_entry_array_size(bytes_object.v, pos_drift)
                 ELSE parse_data_entry_array_size(bytes_object.v, pos_drift)} :
          /\ exc' = Unpacked(r)
          /\ pc' = IF Unpacked(r) # "" THEN "raised" ELSE "loop"
          /\ all_data' = IF Unpacked(r) # "" THEN all_data ELSE Append(all_data, r.val.entry)
          /\ pos_drift' = IF Unpacked(r) # "" THEN pos_drift ELSE r.val.next
          /\ pos' = IF Unpacked(r) # "" THEN pos ELSE pos + 1
    /\ UNCHANGED <<module, ctor, data_stack, wire, bytes_object, length>>
    /\ UNCHANGED <<cvars, bvars>>

\* a loop that ends only past the declared count, which the code's
\* range(length) does not do
ReturnPastCount ==
    /\ pc = "loop"
    /\ pos > length
    /\ pc' = "returned"
    /\ UNCHANGED <<module, ctor, data_stack, wire, bytes_object, length, all_data,
                   pos_drift, pos, exc>>
    /\ UNCHANGED <<cvars, bvars>>

\* data_entries_from_bytes returns all_data
ReturnAllData ==
    /\ pc = "loop"
    /\ pos = length
    /\ pc' = "returned"
    /\ UNCHANGED <<module, ctor, data_stack, wire, bytes_object, length, all_data,
                   pos_drift, pos, exc>>
    /\ UNCHANGED <<cvars, bvars>>

Next ==
    \/ \E a \in CtorInputs : NewDataEntry(a.data, a.data_type)
    \/ SerializeData
    \/ \E b \in Received(wire.v, data_stack) : DataEntriesFromBytes(b)
    \/ ParseEntry
    \/ ReturnAllData

Spec == Init /\ [][Next]_vars

\* a call of data_entries_from_bytes, once made, runs on: the interpreter
\* executes the next pass of its loop and its return.  The second conjunct
\* is WF_vars(ParseEntry) with ENABLED <<ParseEntry>>_vars written out: a
\* pass is possible exactly while the counter is below the count, and it
\* changes pc or pos
SpecRunning ==
    /\ Init /\ [][Next]_vars
    /\ WF_vars(ReturnAllData)
    /\ ([]<>~(pc = "loop" /\ pos < length) \/ []<><<ParseEntry>>_vars)

(***************************************************************************)
(* The calling program of the builders: its inputs and its steps           *)
(***************************************************************************)
\* the values of the constants of ContractMeta: their width, and the id of
\* the first function
MetaChoices == [width : 1..MaxWidth, first : {0, 256}]

\* the sequences over S of at most n elements
SeqsUpTo(S, n) == UNION {[1..k -> S] : k \in 0..n}

\* opcodes and operand indexes that list_opc_gen is called with
OpcodeInputs == {<<>>, <<7>>, <<1, 2>>}

\* the lists that list_opc_gen is called with: short lists of any lengths,
\* and one instruction that makes the length field 65535, and 65536
ListOpcInputs ==
    (SeqsUpTo(OpcodeInputs, MaxOpc) \X SeqsUpTo(OpcodeInputs, MaxOpc))
      \cup {<<<<Rep(n, 0)>>, <<<<>>>>>> : n \in {U16Max - 4, U16Max - 3}}

\* the versions that language_version_builder is called with: 0, 1, 2^32-1,
\* 2^32, and a str
VersionInputs == {Zero, One, MaxU32, PyInt(<<1, 0, 0, 0, 0>>), Hi}

\* the values that bytes_builder_from_list is called with: lists, bytes,
\* None and a str
SectionInputs == {PyList(Blobs(n, 60)) : n \in 0..2} \cup {PyBytes(<<1, 2>>), PyNone, Hi}

\* the outcome r of the call fn(args)
CallOf(fn, args, r) == [fn |-> fn, args |-> args, exc |-> r.exc, val |-> r.val]

\* a bytes result as the value of a call
AsBytes(r) == Bind(r, LAMBDA b : Return(PyBytes(b)))

\* list_opc_gen(ids, index_input)
ListOpcGen(ids, index_input) ==
    /\ builder = NoBuilderCall
    /\ \E r \in {AsBytes(list_opc_gen(ids, index_input))} :
          builder' = CallOf("list_opc_gen", <<ids, index_input>>, r)
    /\ UNCHANGED <<meta, dvars, cvars>>

\* init_fun_gen(), <op>_fun_gen() or <op>_fun_without_split_gen()
FunGen(op, with_split) ==
    /\ builder = NoBuilderCall
    /\ \E r \in {AsBytes(fun_gen(op, with_split))} :
          builder' = CallOf("fun_gen", <<op, with_split>>, r)
    /\ UNCHANGED <<meta, dvars, cvars>>

\* init_func_bytes() or <op>_func_bytes()
FuncBytesOf(op) ==
    /\ builder = NoBuilderCall
    /\ \E r \in {AsBytes(func_bytes(op))} :
          builder' = CallOf("func_bytes", <<op>>, r)
    /\ UNCHANGED <<meta, dvars, cvars>>

\* language_version_builder(version)
LanguageVersionBuilder(version) ==
    /\ builder = NoBuilderCall
    /\ \E r \in {language_version_builder(version)} :
          builder' = CallOf("language_version_builder", <<version>>, r)
    /\ UNCHANGED <<meta, dvars, cvars>>

\* bytes_builder_from_list(input_list)
BytesBuilderFromList(input_list) ==
    /\ builder = NoBuilderCall
    /\ \E r \in {bytes_builder_from_list(input_list)} :
          builder' = CallOf("bytes_builder_from_list", <<input_list>>, r)
    /\ UNCHANGED <<meta, dvars, cvars>>

\* the program reads the attributes of ContractDefaults
ReadDefaults ==
    /\ builder = NoBuilderCall
    /\ \E r \in {ContractDefaults} :
          builder' = CallOf("ContractDefaults", <<>>, r)
    /\ UNCHANGED <<meta, dvars, cvars>>

\* the functions that have a descriptor: split has none without split, and
\* init has one
FunGenInputs ==
    {<<"init", TRUE>>}
      \cup ({<<Operations[i], w>> : i \in 1..Len(Operations), w \in BOOLEAN}
              \ {<<"split", FALSE>>})

NextCatalog ==
    \/ \E a \in ListOpcInputs : ListOpcGen(a[1], a[2])
    \/ \E a \in FunGenInputs : FunGen(a[1], a[2])
    \/ \E op \in {"init"} \cup {Operations[i] : i \in 1..Len(Operations)} : FuncBytesOf(op)
    \/ \E version \in VersionInputs : LanguageVersionBuilder(version)
    \/ \E input_list \in SectionInputs : BytesBuilderFromList(input_list)
    \/ ReadDefaults

InitCatalog ==
    /\ DataInit /\ module = "vsyspy" /\ ContractInit /\ truncated_input = "struct.error"
    /\ meta \in MetaChoices
    /\ builder = NoBuilderCall

SpecCatalog == InitCatalog /\ [][NextCatalog]_vars

(***************************************************************************)
(* The DataEntry codec: properties                                         *)
(***************************************************************************)
\* data_entries_from_bytes was called and has returned or raised
DecodeEnded == bytes_object.py = "bytes" /\ pc \in {"returned", "raised"}

\* the tags parse_data_entry_array_size of the module has a branch for
DispatchedTags ==
    IF module = "legacy"
    THEN {Type_public_key, Type_address, Type_amount, Type_int32, Type_short_text,
          Type_contract_account}
    ELSE {Type_public_key, Type_address, Type_amount, Type_int32, Type_short_text,
          Type_contract_account, Type_token_id, Type_timestamp}

\* the payload of the entry has the length its type fixes
HasFixedLength(e) ==
    /\ e.data_type = "public_key" => Len(e.data_bytes) = Type_key_length
    /\ e.data_type = "address" => Len(e.data_bytes) = Type_address_length
    /\ e.data_type = "contract_account" => Len(e.data_bytes) = Type_contract_account_length
    /\ e.data_type = "token_id" => Len(e.data_bytes) = Type_token_address_length

SameEntries(got, want) ==
    /\ Len(got) = Len(want)
    /\ \A i \in 1..Len(want) :
          /\ got[i].py = "DataEntry"
          /\ got[i].data_type = want[i].data_type
          /\ got[i].data = want[i].data

(* C1: for every list xs of DataEntry values that construction accepted,   *)
(* data_entries_from_bytes(serialize_data(xs)) returns a list of the same  *)
(* length whose i-th entry has the tag and the value of xs[i].             *)
C1_RoundTrip ==
    (DecodeEnded /\ bytes_object = wire) =>
        (pc = "returned" /\ SameEntries(all_data, data_stack))

\* the round trip of the lists whose entries have their type's fixed length
RoundTripOfFixedLength ==
    (DecodeEnded /\ bytes_object = wire
       /\ \A i \in 1..Len(data_stack) : HasFixedLength(data_stack[i])) =>
        (pc = "returned" /\ SameEntries(all_data, data_stack))

(* C6: when the loop of data_entries_from_bytes stands at an offset whose  *)
(* tag byte is none the module decodes (an unregistered byte, a registered *)
(* tag without a decoder, or no byte at all), the call raises there: it    *)
(* appends nothing, advances nothing and returns no list.                  *)
C6_UnknownTagAborts ==
    [][(pc = "loop" /\ pos < length
          /\ Slice(bytes_object.v, pos_drift, pos_drift + 1) \notin DispatchedTags)
         => (pc' = "raised" /\ exc' # "" /\ all_data' = all_data
               /\ pos' = pos /\ pos_drift' = pos_drift)]_vars

\* the second entry of a buffer carries the unregistered tag 12 and the call raised there
C6_Witness ==
    /\ pc = "raised"
    /\ bytes_object.py = "bytes"
    /\ Len(all_data) = 1
    /\ Slice(bytes_object.v, pos_drift, pos_drift + 1) = <<12>>
    /\ exc = "TypeError"

(* C7: an entry whose implied payload length reaches past the end of the   *)
(* buffer is never decoded: the offset after every decoded entry lies      *)
(* within the buffer.                                                      *)
C7_NoEntryPastTheEnd ==
    (bytes_object.py = "bytes" /\ pc \in {"loop", "returned"}) =>
        pos_drift <= Len(bytes_object.v)

(* C8: DataEntry of a ShortText succeeds for every text whose latin-1 body *)
(* has at most 140 bytes and raises ValueError for every longer one.       *)
C8_ShortTextBoundary ==
    (ctor.data_type = Type_short_text /\ ctor.data.py = "str"
       /\ \A i \in 1..Len(ctor.data.v) : ctor.data.v[i] <= 255) =>
        IF Len(ctor.data.v) <= Type_max_short_text_size
        THEN ctor.exc = ""
        ELSE ctor.exc = "ValueError"

(* C9: DataEntry of an Amount raises ValueError for the value 0 and        *)
(* succeeds for every value from 1 to 2^64 - 1.                            *)
C9_AmountBoundary ==
    (ctor.data_type = Type_amount /\ ctor.data.py = "int") =>
        /\ ctor.data.v = <<>> => ctor.exc = "ValueError"
        /\ (1 <= Len(ctor.data.v) /\ Len(ctor.data.v) <= 8) =>
              (ctor.exc = "" /\ ctor.val.data = ctor.data)

\* the Amount 2^64 - 1 was constructed
C9_Witness ==
    /\ ctor.data_type = Type_amount
    /\ ctor.data = MaxU64
    /\ ctor.exc = ""
    /\ pc = "constructed"

(* C10: in both modules DataEntry of an Int32 rejects 0 and accepts every  *)
(* value from 1 to 2^32 - 1, giving the tag 0x04 and the 4-byte big-endian *)
(* value.                                                                  *)
C10_Int32Boundary ==
    (ctor.data_type = Type_int32 /\ ctor.data.py = "int") =>
        /\ ctor.data.v = <<>> => ctor.exc # ""
        /\ (1 <= Len(ctor.data.v) /\ Len(ctor.data.v) <= 4) =>
              /\ ctor.exc = ""
              /\ ctor.val.bytes = <<4>> \o Rep(4 - Len(ctor.data.v), 0) \o ctor.data.v


\* the payload length the type tag fixes, 0 for a tag that fixes none
FixedLength(data_type) ==
    IF data_type = <<1>> THEN 32
    ELSE IF data_type \in {<<2>>, <<6>>} THEN 26
    ELSE IF data_type \in {<<3>>, <<9>>} THEN 8
    ELSE IF data_type = <<4>> THEN 4
    ELSE IF data_type = <<8>> THEN 30
    ELSE 0

(* C11: a DataEntry that vsyspy's construction accepts with a fixed-length *)
(* tag (PublicKey, Address, Amount, Int32, ContractAccount, TokenId,       *)
(* Timestamp) has a payload of exactly the tag's length and bytes one      *)
(* longer; a value whose payload has another length is rejected.           *)
C11_FixedLengthEnforced ==
    (module = "vsyspy" /\ ctor.exc = "" /\ ctor.val.py = "DataEntry"
       /\ FixedLength(ctor.data_type) > 0) =>
        /\ Len(ctor.val.data_bytes) = FixedLength(ctor.data_type)
        /\ Len(ctor.val.bytes) = 1 + FixedLength(ctor.data_type)

\* the tag byte of the type name a DataEntry keeps
TagByte(data_type) ==
    IF data_type = "public_key" THEN 1
    ELSE IF data_type = "address" THEN 2
    ELSE IF data_type = "amount" THEN 3
    ELSE IF data_type = "int32" THEN 4
    ELSE IF data_type = "short_text" THEN 5
    ELSE IF data_type = "contract_account" THEN 6
    ELSE IF data_type = "token_id" THEN 8
    ELSE 9

\* n as two big-endian bytes
TwoBytes(n) == <<n \div 256, n % 256>>

\* the wire form of one entry, from its type and its value
EntryWire(e) ==
    IF e.data_type \in {"amount", "timestamp"}
    THEN <<TagByte(e.data_type)>> \o Rep(8 - Len(e.data.v), 0) \o e.data.v
    ELSE IF e.data_type = "int32"
    THEN <<4>> \o Rep(4 - Len(e.data.v), 0) \o e.data.v
    ELSE IF e.data_type = "short_text"
    THEN <<5>> \o TwoBytes(Len(e.data.v)) \o e.data.v
    ELSE <<TagByte(e.data_type)>> \o e.data_bytes

RECURSIVE EntriesWire(_)
EntriesWire(l) == IF l = <<>> THEN <<>> ELSE EntryWire(Head(l)) \o EntriesWire(Tail(l))

(* C14: serialize_data of n entries (a single entry passed without a list  *)
(* counts as a list of one) is the 2-byte big-endian number of entries     *)
(* followed by every entry's tag byte and payload in order; an Amount is   *)
(* 03 and 8 big-endian bytes, a ShortText 05, the 2-byte body length and   *)
(* the body.                                                               *)
C14_SerializeDataLayout ==
    wire # PyNone => wire.v = TwoBytes(Len(data_stack)) \o EntriesWire(data_stack)

\* [Amount 100, ShortText "hi"] was serialized
C14_Witness ==
    /\ Len(data_stack) = 2
    /\ data_stack[1].data = PyInt(<<100>>) /\ data_stack[1].data_type = "amount"
    /\ data_stack[2].data = Hi
    /\ wire = PyBytes(<<0, 2, 3, 0, 0, 0, 0, 0, 0, 0, 100, 5, 0, 2, 104, 105>>)

\* the bytes the entry at offset p of buffer b takes: the tag, then the
\* tag's fixed length or, for a ShortText, the 2-byte inner length and as
\* many bytes as it declares
Consumed(b, p) ==
    IF Slice(b, p, p + 1) = <<5>>
    THEN 1 + 2 + b[p + 2] * 256 + b[p + 3]
    ELSE 1 + FixedLength(Slice(b, p, p + 1))

(* C17: decoding a list, the first entry starts at offset 2 and every      *)
(* entry starts where the one before ended: after an entry at offset p the *)
(* offset is p + 1 + the tag's fixed length (PublicKey 32, Address 26,     *)
(* Amount 8, Int32 4, ContractAccount 26, TokenId 30, Timestamp 8), and    *)
(* p + 1 + 2 + the inner length for a ShortText.                           *)
C17_OffsetThreading ==
    [][/\ (pc = "serialized" /\ pc' = "loop") => pos_drift' = 2
       /\ (pc = "loop" /\ pos' = pos + 1) =>
             pos_drift' = pos_drift + Consumed(bytes_object.v, pos_drift)]_vars

\* a ContractAccount and a TokenId were decoded, from offsets 2 and 29
C17_Witness ==
    /\ module = "vsyspy"
    /\ bytes_object = wire
    /\ pos = 2
    /\ Len(all_data) = 2
    /\ all_data[1].data_type = "contract_account"
    /\ all_data[2].data_type = "token_id"
    /\ pos_drift = 60

(* C20: data_entries_from_bytes terminates on every buffer, by returning   *)
(* or by raising, and it never makes more entry-decoding passes than the   *)
(* leading 2-byte count declares.                                          *)
C20_DecodeTerminates ==
    /\ [](pos <= length)
    /\ (pc = "loop") ~> (pc \in {"returned", "raised"})

\* a buffer holding two entries and declaring one was decoded in one pass,
\* and the call returned
C20_Witness ==
    /\ pc = "returned"
    /\ Len(data_stack) = 2
    /\ bytes_object.v = WithByte(wire.v, 1, 1)
    /\ length = 1
    /\ pos = 1
    /\ Len(all_data) = 1

(***************************************************************************)
(* class Contract: properties                                              *)
(***************************************************************************)
\* the 4 bytes of the small language version n
Version(n) == PyBytes(<<0, 0, 0, n>>)

\* the last from_bytes call was given the bytes taken from source
ParsedOwnBytes == call.arg = contract_bytes /\ call.arg # PyNone

\* a 4-byte big-endian unsigned language version is at least 2
AtLeastTwo(language_version) ==
    \/ language_version.v[1] > 0
    \/ language_version.v[2] > 0
    \/ language_version.v[3] > 0
    \/ language_version.v[4] >= 2

\* a list behind its count, every element behind its length
FrameList(xs) == serialize_arrays(xs).val

\* a blob behind its length
FrameBlob(b) == struct_pack_H(Len(b)).val \o b

\* the wire form of contract c with and without the state-map section
WithStateMap(c) ==
    c.language_code.v \o c.language_version.v
        \o FrameBlob(FrameList(c.trigger.v)) \o FrameBlob(FrameList(c.descriptor.v))
        \o FrameBlob(FrameList(c.state_variable.v)) \o FrameBlob(FrameList(c.state_map.v))
        \o FrameList(c.textual.v)

WithoutStateMap(c) ==
    c.language_code.v \o c.language_version.v
        \o FrameBlob(FrameList(c.trigger.v)) \o FrameBlob(FrameList(c.descriptor.v))
        \o FrameBlob(FrameList(c.state_variable.v))
        \o FrameList(c.textual.v)

(* C2: a contract of version 1 with an empty state_map, or of a version of  *)
(* at least 2, is what from_bytes makes of its own bytes: the call returns  *)
(* and all seven fields equal those of the contract the bytes were taken    *)
(* from.                                                                    *)
C2_ContractRoundTrip ==
    (/\ ParsedOwnBytes
     /\ \/ source.language_version = Version(1) /\ source.state_map = PyList(<<>>)
        \/ AtLeastTwo(source.language_version))
    => (call.exc = "" /\ contract = source)

C2_Witness ==
    /\ ParsedOwnBytes
    /\ source.language_version = Version(2)
    /\ Len(source.state_map.v) = MaxSection
    /\ Len(source.trigger.v) = MaxSection
    /\ call.exc = ""
    /\ contract = source

(* C3: the bytes of a version-1 contract are the header, the trigger,      *)
(* descriptor and state-variable sections and the textual list, with no    *)
(* state-map frame whatever state_map holds; the bytes of a version-2      *)
(* contract have the state-map frame between the state-variable section    *)
(* and the textual list, also when state_map is empty.                     *)
C3_VersionGating ==
    contract_bytes # PyNone =>
        /\ source.language_version = Version(1)
              => contract_bytes.v = WithoutStateMap(source)
        /\ source.language_version = Version(2)
              => contract_bytes.v = WithStateMap(source)

C3_Witness ==
    /\ contract_bytes # PyNone
    /\ source.language_version = Version(1)
    /\ source.state_map # PyList(<<>>)
    /\ contract_bytes.v = WithoutStateMap(source)

\* from_bytes returned and read a state-map section behind the
\* state-variable section
ExpectedStateMap == call.state_map_end > call.state_variable_end

(* C4, as stated: for every 32-bit language version v the state-map        *)
(* section is emitted by Contract.bytes, and read by a from_bytes call     *)
(* that returns, exactly when v is at least 2.                             *)
C4_StateMapIffAtLeastTwo ==
    /\ contract_bytes # PyNone =>
          IF AtLeastTwo(source.language_version)
          THEN contract_bytes.v = WithStateMap(source)
          ELSE contract_bytes.v = WithoutStateMap(source)
    /\ (call.arg # PyNone /\ call.exc = "") =>
          (ExpectedStateMap <=> AtLeastTwo(contract.language_version))

(* C4, amended: for every 32-bit language version v the state-map section  *)
(* is emitted by Contract.bytes, and read by a from_bytes call that        *)
(* returns, exactly when v is not 1; version 0 carries the section.        *)
C4_StateMapIffNotOne ==
    /\ contract_bytes # PyNone =>
          IF source.language_version # Version(1)
          THEN contract_bytes.v = WithStateMap(source)
          ELSE contract_bytes.v = WithoutStateMap(source)
    /\ (call.arg # PyNone /\ call.exc = "") =>
          (ExpectedStateMap <=> contract.language_version # Version(1))

C4_Witness ==
    /\ ParsedOwnBytes
    /\ source.language_version = Version(0)
    /\ source.state_map # PyList(<<>>)
    /\ contract_bytes.v = WithStateMap(source)
    /\ call.exc = ""
    /\ ExpectedStateMap
    /\ contract.state_map = source.state_map

(* C12: every from_bytes call that fails, whatever exception class the     *)
(* framing helpers raise on the buffer, raises InvalidContractException    *)
(* and no other class.                                                     *)
C12_OnlyInvalidContract ==
    (call.arg # PyNone /\ call.exc # "") => call.exc = "InvalidContractException"

(* C5: whatever from_bytes calls a Contract object has been through,       *)
(* returned or raised, a language_version of 1 comes with a state_map that *)
(* is the empty list.                                                      *)
C5_NoStateMapUnderVersion1 ==
    contract.language_version = Version(1) => contract.state_map = PyList(<<>>)

(***************************************************************************)
(* The builders and the catalog: properties                                *)
(***************************************************************************)
\* the big-endian 16-bit field of b at the 0-based offset at
U16(b, at) == b[at + 1] * 256 + b[at + 2]

\* 2 + len(opcode) + len(operandIndexes), summed over the instructions
RECURSIVE FrameSum(_, _)
FrameSum(ids, index_input) ==
    IF ids = <<>> THEN 0
    ELSE 2 + Len(Head(ids)) + Len(Head(index_input))
           + FrameSum(Tail(ids), Tail(index_input))

\* where the opcode-list frame of a descriptor d starts: behind the id, the
\* calling type and the two framed type lists of one-byte tags
FrameStart(d) == 3 + 2 + U16(d, 3) + 2 + U16(d, 3 + 2 + U16(d, 3))

\* the length field at the offset at of b counts the bytes behind it
CountsTheRest(b, at) == U16(b, at) = Len(b) - at - 2

(* C13: for equally long lists of opcodes and operand indexes, the first 2  *)
(* bytes of the output of list_opc_gen are 2 + the sum of (2 + len(opcode)  *)
(* + len(operandIndexes)), which is the number of bytes behind the length   *)
(* field; the same holds for the opcode frame of every descriptor a         *)
(* *_fun_gen builds and of every descriptor of both lists of the catalog.   *)
C13_OpcodeFrameLength ==
    /\ (builder.fn = "list_opc_gen" /\ builder.exc = ""
          /\ Len(builder.args[1]) = Len(builder.args[2])) =>
            /\ U16(builder.val.v, 0) = 2 + FrameSum(builder.args[1], builder.args[2])
            /\ CountsTheRest(builder.val.v, 0)
    /\ (builder.fn = "fun_gen" /\ builder.exc = "") =>
            /\ U16(builder.val.v, FrameStart(builder.val.v))
                  = 2 + FrameSum(opc_of(builder.args[1]), opc_index_of(builder.args[1]))
            /\ CountsTheRest(builder.val.v, FrameStart(builder.val.v))
    /\ (builder.fn = "ContractDefaults" /\ builder.exc = "") =>
            \A l \in {builder.val.trigger, builder.val.descriptor_with_split,
                       builder.val.descriptor_without_split} :
               \A i \in 1..Len(l) : CountsTheRest(l[i], FrameStart(l[i]))

\* list_opc_gen was called with two instructions of 3 and of 1 bytes
C13_Witness ==
    /\ builder.fn = "list_opc_gen"
    /\ builder.args = <<<<(<<1, 2>>), (<<7>>)>>, <<(<<7>>), (<<>>)>>>>
    /\ builder.val = PyBytes(<<0, 10, 0, 2, 0, 3, 1, 2, 7, 0, 1, 7>>)

\* the names that a framed list of textual descriptors gives its functions:
\* the first framed blob of each element
NamesOf(textual) ==
    LET l == parse_arrays(textual).val
    IN Tuple(Len(l), [i \in 1..Len(l) |-> parse_array_size(l[i], 0).val.bytes])

\* "split"
SplitName == <<115, 112, 108, 105, 116>>

\* some element of the list of names l is the name n
Names(l, n) == \E i \in 1..Len(l) : l[i] = n

\* the class has no attribute that holds a state map
HasStateMap(defaults) == "state_map" \in DOMAIN defaults

FitsU32(version) == version.py = "int" /\ Len(version.v) <= 4

(* C16: the builders never fail silently: language_version_builder with a   *)
(* version that does not fit an unsigned 32-bit field, and                  *)
(* bytes_builder_from_list with a value that is no list, raise instead of   *)
(* returning normally with no result.                                       *)
C16_BuildersReportErrors ==
    /\ (builder.fn = "language_version_builder" /\ ~FitsU32(builder.args[1])) =>
          builder.exc # ""
    /\ (builder.fn = "bytes_builder_from_list" /\ builder.args[1].py # "list") =>
          builder.exc # ""

\* a framed list of one-byte type tags, or of no types
FramedTypes(types) == TwoBytes(Len(types.v)) \o (IF types.py = "list" THEN list2bytes(types.v) ELSE types.v)

\* instrLen:2 ++ opcode ++ operandIndexes of every instruction
RECURSIVE InstructionsWire(_, _)
InstructionsWire(ids, index_input) ==
    IF ids = <<>> THEN <<>>
    ELSE TwoBytes(Len(Head(ids)) + Len(Head(index_input))) \o Head(ids) \o Head(index_input)
           \o InstructionsWire(Tail(ids), Tail(index_input))

\* totalLen:2 ++ count:2 ++ the instructions
OpcodeListFrame(ids, index_input) ==
    TwoBytes(2 + FrameSum(ids, index_input)) \o TwoBytes(Len(ids))
      \o InstructionsWire(ids, index_input)

(* C18: every descriptor that a *_fun_gen function builds is the 2-byte     *)
(* big-endian id of the function, the 1-byte calling type, the framed list  *)
(* of return types, the framed list of parameter types and the opcode-list  *)
(* frame, with nothing before, between or after.                            *)
C18_DescriptorLayout ==
    (builder.fn = "fun_gen" /\ builder.exc = "") =>
        builder.val.v =
            TwoBytes(ContractMeta_id(builder.args[1], builder.args[2]))
              \o function_type_map(IF builder.args[1] = "init" THEN "onInit" ELSE "public")
              \o FramedTypes(return_type(builder.args[1]))
              \o FramedTypes(para_type(builder.args[1]))
              \o OpcodeListFrame(opc_of(builder.args[1]), opc_index_of(builder.args[1]))

\* balance_of_fun_gen() was called: id 266, public, returns an Amount, takes
\* an Account, two instructions
C18_Witness ==
    /\ builder.fn = "fun_gen"
    /\ builder.args = <<"balance_of", TRUE>>
    /\ meta = [width |-> 1, first |-> 256]
    /\ Slice(builder.val.v, 0, 13) = <<1, 10, 1, 0, 1, 3, 0, 1, 7, 0, 13, 0, 2>>
    /\ Len(builder.val.v) = 24

\* the operations of the two lists, in the order the specification gives
ListedOperations(with_split) ==
    IF with_split
    THEN <<"supersede", "issue", "destroy", "split", "send", "transfer", "deposit",
           "withdraw", "total_supply", "max_supply", "balance_of", "get_issuer">>
    ELSE <<"supersede", "issue", "destroy", "send", "transfer", "deposit",
           "withdraw", "total_supply", "max_supply", "balance_of", "get_issuer">>

\* the binary list is the descriptors of the operations ops in their order,
\* and the textual list gives their names in the same order
SameOperations(binary, textual, ops, with_split) ==
    /\ Len(binary) = Len(ops)
    /\ Len(NamesOf(textual)) = Len(ops)
    /\ \A i \in 1..Len(ops) :
          /\ binary[i] = fun_gen(ops[i], with_split).val
          /\ U16(binary[i], 0) = ContractMeta_id(ops[i], with_split)
          /\ NamesOf(textual)[i] = FunctionName(ops[i]).v

(* C19: in each variant of the catalog the textual list names the same      *)
(* operations in the same order as the binary list: supersede, issue,       *)
(* destroy, split, send, transfer, deposit, withdraw, totalSupply,          *)
(* maxSupply, balanceOf, getIssuer with split (12), the same without split  *)
(* (11) in the other, and the trigger list holds exactly init.              *)
C19_TextualMatchesBinary ==
    (builder.fn = "ContractDefaults" /\ builder.exc = "") =>
        /\ SameOperations(builder.val.descriptor_with_split,
                          builder.val.descriptor_textual_with_split,
                          ListedOperations(TRUE), TRUE)
        /\ SameOperations(builder.val.descriptor_without_split,
                          builder.val.descriptor_textual_without_split,
                          ListedOperations(FALSE), FALSE)
        /\ SameOperations(builder.val.trigger, builder.val.initializer_textual,
                          <<"init">>, TRUE)

\* the attributes were read: the fourth entry of the lists with split is
\* split, in the binary list by its id and in the textual list by its name
C19_Witness ==
    /\ builder.fn = "ContractDefaults"
    /\ U16(builder.val.descriptor_with_split[4], 0) = meta.first + 3
    /\ NamesOf(builder.val.descriptor_textual_with_split)[4] = SplitName
    /\ NamesOf(builder.val.descriptor_textual_without_split)[4] = <<115, 101, 110, 100>>
    /\ NamesOf(builder.val.initializer_textual) = <<(<<105, 110, 105, 116>>)>>

\* the instruction records of b from the 0-based offset at on: each is a
\* 2-byte length and that many bytes
RECURSIVE RecordCount(_, _)
RecordCount(b, at) ==
    IF at + 2 > Len(b) THEN 0 ELSE 1 + RecordCount(b, at + 2 + U16(b, at))

(* C21: for every call of list_opc_gen, also with lists of different        *)
(* lengths, the 2-byte count field of the output is the number of           *)
(* instruction records that follow it.                                      *)
C21_CountMatchesRecords ==
    (builder.fn = "list_opc_gen" /\ builder.exc = "") =>
        U16(builder.val.v, 2) = RecordCount(builder.val.v, 4)

(* C22: a call of Contract.from_bytes that raises leaves every field of the *)
(* Contract object as it was before the call: a step that changes a field   *)
(* is a call that returned.                                                 *)
C22_RaiseLeavesFields == [][contract' # contract => call'.exc = ""]_vars

(* C23: for every buffer b on which data_entries_from_bytes returns,        *)
(* serialize_data of the returned list is b again: no decoded buffer has    *)
(* bytes behind its last entry or a payload shorter than declared.          *)
C23_ReencodeGivesBuffer ==
    (module = "vsyspy" /\ pc = "returned") =>
        /\ serialize_data(PyList(all_data)).exc = ""
        /\ serialize_data(PyList(all_data)).val = bytes_object.v

\* the bytes of a descriptor behind its 2-byte id
BehindId(d) == Slice(d, 2, Len(d))

\* where the list with split holds the operation that the list without
\* split holds at j: split stands at 4
WithSplitIndex(j) == IF j < 4 THEN j ELSE j + 1

====
